---------------------------- MODULE Spec2Model ----------------------------
(***************************************************************************)
(* Model of the listing-audit backend (src/main.py): the per-client        *)
(* throttle gate, the /audit handler, the paginated review collector and   *)
(* the two scoring engines.                                                *)
(*                                                                         *)
(* Representation.                                                         *)
(*  - A string that the code only measures is held by its measure: a       *)
(*    title and a description by len(), a bullet by len(bullet.split()),   *)
(*    the image list by its length.                                        *)
(*  - The request input is held character by character, because the        *)
(*    handler strips it, matches it against a pattern and tests a prefix.  *)
(*  - A review is held by its compound polarity in tenths (-3 is -0.3).    *)
(*    The mean of a review list is the exact fraction num / (10 * den).    *)
(*  - None is the empty sequence and a present value v is <<v>>.           *)
(***************************************************************************)
EXTENDS Integers, Sequences, FiniteSets, TLC

VARIABLES
    audit_counts,   \* the module-level dictionary: client identity -> count
    sent,           \* POST /audit requests each client has sent so far
    pc,             \* position of the request being served
    req,            \* the request being served: <<[client, input]>> or <<>>
    input_value,    \* the handler's stripped input
    path,           \* branch the handler took: "none", "asin" or "url"
    calls,          \* collaborator calls made for the request being served
    details,        \* <<listing record>> or <<>> (None)
    reviews,        \* the collector's list
    page,           \* the collector's page index
    fetches,        \* page fetches the collector has issued
    collected,      \* <<list returned by the collector>> or <<>>
    report,         \* <<audit report>> or <<>>
    response,       \* <<[status, success, kind]>> or <<>>
    tpc,            \* concurrent gate: position of each worker thread
    tcount          \* concurrent gate: each thread's local `count`

vars == <<audit_counts, sent, pc, req, input_value, path, calls, details,
          reviews, page, fetches, collected, report, response, tpc, tcount>>

----------------------------------------------------------------------------
(* Program constants *)

MAX_AUDITS_PER_IP == 3

max_reviews == 100

(* Bounds of the model *)

MaxBullets == 6

MaxScoredReviews == 2

MaxRequests == 5

NumThreads == 4

----------------------------------------------------------------------------
(* Sentiment aggregation *)

\* sum(scores) over positions lo..hi, halving the range.
RECURSIVE SumRange(_, _, _)
SumRange(s, lo, hi) ==
    IF lo > hi THEN 0
    ELSE IF lo = hi THEN s[lo]
    ELSE LET mid == (lo + hi) \div 2
         IN  SumRange(s, lo, mid) + SumRange(s, mid + 1, hi)

SumSeq(s) == SumRange(s, 1, Len(s))

\* The mean compound score as the fraction num / (10 * den), den >= 1.
analyze_reviews_sentiment(rs) ==
    IF rs = <<>>
    THEN [num |-> 0, den |-> 1]
    ELSE [num |-> SumSeq(rs), den |-> Len(rs)]

\* avg > t / 10 and avg < t / 10 for a threshold t in tenths.
Above(avg, t) == avg.num > t * avg.den
Below(avg, t) == avg.num < t * avg.den

SentimentSummary(avg_sent) ==
    IF Above(avg_sent, 2) THEN "positive"
    ELSE IF Above(avg_sent, -2) THEN "neutral"
    ELSE "negative"

----------------------------------------------------------------------------
(* Scoring engine: each analysis yields its recommendations and deduction *)

Rec(rule, arg) == [rule |-> rule, arg |-> arg]

NoFinding == [recs |-> <<>>, ded |-> 0]

Finding(rule, arg, ded) == [recs |-> <<Rec(rule, arg)>>, ded |-> ded]

TitleAnalysis(title) ==
    IF title = 0 THEN Finding("title_missing", 0, 25)
    ELSE IF title < 50 THEN Finding("title_short", title, 10)
    ELSE IF title > 200 THEN Finding("title_long", 0, 5)
    ELSE NoFinding

\* Fault variant: a thin bullet costs its points without a recommendation.
BulletAnalysisSilentThin(bullets) ==
    LET num_bullets == Len(bullets)
        first == SubSeq(bullets, 1, IF num_bullets < 5 THEN num_bullets ELSE 5)
        thin == SelectSeq([i \in 1..Len(first) |-> i], LAMBDA i : first[i] < 7)
    IN  IF num_bullets = 0 THEN Finding("bullets_none", 0, 20)
        ELSE IF num_bullets < 5 THEN Finding("bullets_few", num_bullets, 10)
        ELSE [recs |-> <<>>, ded |-> 2 * Len(thin)]

BulletAnalysis(bullets) ==
    LET num_bullets == Len(bullets)
        first == SubSeq(bullets, 1, IF num_bullets < 5 THEN num_bullets ELSE 5)
        thin == SelectSeq([i \in 1..Len(first) |-> i], LAMBDA i : first[i] < 7)
    IN  IF num_bullets = 0 THEN Finding("bullets_none", 0, 20)
        ELSE IF num_bullets < 5 THEN Finding("bullets_few", num_bullets, 10)
        ELSE [recs |-> [k \in 1..Len(thin) |-> Rec("bullet_short", thin[k])],
              ded  |-> 2 * Len(thin)]

DescriptionAnalysis(description) ==
    IF description = 0 THEN Finding("description_missing", 0, 25)
    ELSE IF description < 150 THEN Finding("description_short", 0, 10)
    ELSE NoFinding

ImageAnalysis(num_images) ==
    IF num_images = 0 THEN Finding("images_none", 0, 20)
    ELSE IF num_images < 3 THEN Finding("images_few", num_images, 10)
    ELSE NoFinding

\* Fault variant: the mixed band leaves out a mean of exactly zero.
SentimentAnalysisSkipsZero(avg_sent) ==
    IF Below(avg_sent, -2) THEN Finding("sentiment_negative", 0, 15)
    ELSE IF Below(avg_sent, 2) /\ avg_sent.num # 0
         THEN Finding("sentiment_mixed", 0, 5)
    ELSE NoFinding

SentimentAnalysis(avg_sent) ==
    IF Below(avg_sent, -2) THEN Finding("sentiment_negative", 0, 15)
    ELSE IF Below(avg_sent, 2) THEN Finding("sentiment_mixed", 0, 5)
    ELSE NoFinding

Max(a, b) == IF a > b THEN a ELSE b
Min(a, b) == IF a < b THEN a ELSE b

\* Fault variant: the final clamp is left out.
ClampScoreMissing(listing_score) == listing_score

ClampScore(listing_score) == Max(0, Min(100, listing_score))

\* "\n".join(f"{i + 1}. {rec}" for i, rec in enumerate(recommendations)):
\* the k-th line (k from 1) is enumerate's i = k - 1 and carries i + 1.
Serialize(recommendations) ==
    [k \in 1..Len(recommendations) |->
        [prefix |-> (k - 1) + 1, rec |-> recommendations[k]]]

audit_amazon_content(d, rs) ==
    LET avg_sent == analyze_reviews_sentiment(rs)
        t == TitleAnalysis(d.title)
        b == BulletAnalysis(d.bullets)
        x == DescriptionAnalysis(d.description)
        i == ImageAnalysis(d.images)
        s == SentimentAnalysis(avg_sent)
        recommendations ==
            t.recs \o b.recs \o x.recs \o i.recs \o s.recs
                \o <<Rec("general_amazon", 0)>>
        listing_score == 100 - t.ded - b.ded - x.ded - i.ded - s.ded
    IN  [listing_score     |-> ClampScore(listing_score),
         sentiment_summary |-> SentimentSummary(avg_sent),
         recommendations   |-> Serialize(recommendations)]

ShopTitleAnalysis(title) ==
    IF title = 0 THEN Finding("shop_title_missing", 0, 25)
    ELSE IF title < 50 THEN Finding("shop_title_short", title, 10)
    ELSE NoFinding

ShopDescriptionAnalysis(description) ==
    IF description = 0 THEN Finding("shop_description_missing", 0, 25)
    ELSE IF description < 150 THEN Finding("shop_description_short", 0, 10)
    ELSE NoFinding

ShopImageAnalysis(num_images) ==
    IF num_images = 0 THEN Finding("shop_images_none", 0, 20)
    ELSE IF num_images < 3 THEN Finding("shop_images_few", num_images, 10)
    ELSE NoFinding

audit_shopify_content(title, description, images) ==
    LET t == ShopTitleAnalysis(title)
        x == ShopDescriptionAnalysis(description)
        i == ShopImageAnalysis(images)
        recommendations ==
            t.recs \o x.recs \o i.recs \o <<Rec("general_shopify", 0)>>
        listing_score == 100 - t.ded - x.ded - i.ded
    IN  [listing_score     |-> ClampScore(listing_score),
         sentiment_summary |-> "",
         recommendations   |-> Serialize(recommendations)]

----------------------------------------------------------------------------
(* Input classification *)

Whitespace == {" ", "\t", "\n"}

AlnumChars ==
    {"A","B","C","D","E","F","G","H","I","J","K","L","M",
     "N","O","P","Q","R","S","T","U","V","W","X","Y","Z",
     "a","b","c","d","e","f","g","h","i","j","k","l","m",
     "n","o","p","q","r","s","t","u","v","w","x","y","z",
     "0","1","2","3","4","5","6","7","8","9"}

RECURSIVE LStrip(_)
LStrip(s) == IF s # <<>> /\ Head(s) \in Whitespace THEN LStrip(Tail(s)) ELSE s

RECURSIVE RStrip(_)
RStrip(s) ==
    IF s # <<>> /\ s[Len(s)] \in Whitespace
    THEN RStrip(SubSeq(s, 1, Len(s) - 1))
    ELSE s

Strip(s) == RStrip(LStrip(s))

StartsWith(s, prefix) ==
    Len(s) >= Len(prefix) /\ SubSeq(s, 1, Len(prefix)) = prefix

\* re.match(r'^[A-Z0-9]{8,10}$', value.strip(), re.IGNORECASE)
is_asin(value) ==
    LET v == Strip(value)
    IN  Len(v) >= 8 /\ Len(v) <= 10 /\ \A k \in 1..Len(v) : v[k] \in AlnumChars

\* input_value.startswith('http')
LooksLikeUrl(v) == StartsWith(v, <<"h","t","t","p">>)

\* What requests.get accepts as a URL: an http:// or https:// scheme followed
\* by a host.  Anything else raises before a connection is made.
HasHttpScheme(v) ==
    \/ StartsWith(v, <<"h","t","t","p",":","/","/">>) /\ Len(v) > 7
    \/ StartsWith(v, <<"h","t","t","p","s",":","/","/">>) /\ Len(v) > 8

----------------------------------------------------------------------------
(* The environment: clients, inputs and what the collaborators return *)

RemoteAddrs == {"10.0.0.1", ""}

\* request.remote_addr or 'unknown'
ClientIdentity(addr) == IF addr = "" THEN "unknown" ELSE addr

Identities == {ClientIdentity(a) : a \in RemoteAddrs}

Inputs ==
    { <<>>,
      <<" "," ">>,
      <<"B","0","C","3","D","4","E","5","F","6">>,
      <<" ","b","0","c","3","d","4","e","5"," ">>,
      <<"h","t","t","p","s","a","b","c">>,
      <<"B","0","C","3","D","4","E">>,
      <<"B","0","C","3","D","4","E","5","F","6","A">>,
      <<"B","0","C","3"," ","D","4","E","5">>,
      <<"h","t","t","p","s",":","/","/","s",".","e","x">>,
      <<"h","t","t","p",":","/","/","s",".","e","x">>,
      <<"h","t","t","p","-","x">>,
      <<"f","t","p",":","/","/","s",".","e","x">>,
      <<"s",".","e","x","/","p">> }

Repeat(n, v) == [k \in 1..n |-> v]

\* Review pages the fetcher can deliver to a request of the whole pipeline.
PipelinePages == {<<>>, Repeat(40, -3), Repeat(70, 3)}

\* Review pages the fetcher can deliver to the collector run on its own.
CollectorPages == {<<>>, Repeat(1, 0), Repeat(7, 0), Repeat(150, 0)}

PipelineListings ==
    { [title |-> 0,  bullets |-> <<>>, description |-> 0, images |-> 0],
      [title |-> 80, bullets |-> <<7, 7, 7, 7, 7>>, description |-> 300,
       images |-> 4] }

PipelineShopPages ==
    { [title |-> 0,  description |-> 0,   images |-> 0],
      [title |-> 60, description |-> 200, images |-> 3] }

----------------------------------------------------------------------------
(* The throttle gate *)

\* audit_counts.get(ip, 0)
Get(d, k) == IF k \in DOMAIN d THEN d[k] ELSE 0

\* d[k] = v
Put(d, k, v) == [x \in DOMAIN d \cup {k} |-> IF x = k THEN v ELSE d[x]]

\* Fault variant: the comparison lets a count equal to the cap through.
OverLimitStrict(count) == count > MAX_AUDITS_PER_IP

OverLimit(count) == count >= MAX_AUDITS_PER_IP

\* Fault variant: the stored count forgets the count that was read.
CountedForgets(d, ip, count) == Put(d, ip, 1)

Counted(d, ip, count) == Put(d, ip, count + 1)

Respond(status, message) ==
    /\ response' = <<[status |-> status, success |-> status = 200,
                      message |-> message]>>
    /\ pc' = "responded"

\* A client sends POST /audit; the server takes it up when it is free.
SendRequest ==
    /\ pc \in {"idle", "responded"}
    /\ \E addr \in RemoteAddrs, inp \in Inputs :
         /\ sent[ClientIdentity(addr)] < MaxRequests
         /\ req' = <<[client |-> ClientIdentity(addr), input |-> inp]>>
         /\ sent' = [sent EXCEPT ![ClientIdentity(addr)] = @ + 1]
    /\ pc' = "gate"
    /\ input_value' = <<>>
    /\ path' = "none"
    /\ calls' = {}
    /\ details' = <<>>
    /\ reviews' = <<>>
    /\ page' = 1
    /\ fetches' = 0
    /\ collected' = <<>>
    /\ report' = <<>>
    /\ response' = <<>>
    /\ UNCHANGED <<audit_counts, tpc, tcount>>

\* before_request, run to completion (sequential serving).
limit_audit_requests ==
    /\ pc = "gate"
    /\ LET ip == req[1].client
           count == Get(audit_counts, ip)
       IN  IF OverLimit(count)
           THEN /\ Respond(429, "limit_exceeded")
                /\ UNCHANGED audit_counts
           ELSE /\ audit_counts' = Counted(audit_counts, ip, count)
                /\ pc' = "handler"
                /\ UNCHANGED response
    /\ UNCHANGED <<sent, req, input_value, path, calls, details, reviews, page,
                   fetches, collected, report, tpc, tcount>>

----------------------------------------------------------------------------
(* The /audit handler, split at its calls to the collaborators *)

\* audit() up to its first collaborator call: strip, empty check, routing.
audit_classify ==
    /\ pc = "handler"
    /\ LET v == Strip(req[1].input)
       IN  /\ input_value' = v
           /\ IF v = <<>>
              THEN Respond(400, "no_input") /\ UNCHANGED path
              ELSE IF is_asin(v)
              THEN path' = "asin" /\ pc' = "extract" /\ UNCHANGED response
              ELSE IF LooksLikeUrl(v)
              THEN path' = "url" /\ pc' = "extract" /\ UNCHANGED response
              ELSE Respond(400, "invalid_format") /\ UNCHANGED path
    /\ UNCHANGED <<audit_counts, sent, req, calls, details, reviews, page,
                   fetches, collected, report, tpc, tcount>>

\* extract_amazon_listing_details: a record, None (status other than 200),
\* or an exception out of requests.get, which audit() turns into a 500.
audit_extract_amazon ==
    /\ pc = "extract" /\ path = "asin"
    /\ calls' = calls \cup {"extract_amazon_listing_details"}
    /\ \/ \E d \in PipelineListings :
            /\ details' = <<d>>
            /\ pc' = "collect"
            /\ UNCHANGED response
       \/ Respond(500, "amazon_failed") /\ UNCHANGED details
       \/ Respond(500, "exception") /\ UNCHANGED details
    /\ reviews' = <<>>
    /\ page' = 1
    /\ UNCHANGED <<audit_counts, sent, req, input_value, path, fetches,
                   collected, report, tpc, tcount>>

\* fetch_shopify_details and, when it returns a record, audit_shopify_content
\* and the success response.
audit_shopify ==
    /\ pc = "extract" /\ path = "url"
    /\ calls' = calls \cup {"fetch_shopify_details"}
    /\ \/ /\ HasHttpScheme(input_value)
          /\ \E d \in PipelineShopPages :
               /\ details' = <<d>>
               /\ report' = <<audit_shopify_content(d.title, d.description,
                                                    d.images)>>
               /\ Respond(200, "")
       \/ /\ HasHttpScheme(input_value)
          /\ Respond(500, "shopify_failed")
          /\ UNCHANGED <<details, report>>
       \/ /\ Respond(500, "exception")
          /\ UNCHANGED <<details, report>>
    /\ UNCHANGED <<audit_counts, sent, req, input_value, path, reviews, page,
                   fetches, collected, tpc, tcount>>

\* Fault variant: the returned list is not cut to the cap.
TruncateMissing(rs, cap) == rs

\* reviews[:max_reviews]
Truncate(rs, cap) == SubSeq(rs, 1, Min(Len(rs), cap))

\* One pass of the collector's loop body: the page fetch and what follows.
CollectFetch(Pages) ==
    /\ pc = "collect"
    /\ Len(reviews) < max_reviews
    /\ fetches' = fetches + 1
    /\ calls' = calls \cup {"fetch_review_page"}
    /\ \/ \* status_code != 200: break
          /\ pc' = "collect_exit"
          /\ UNCHANGED <<reviews, page, response>>
       \/ \E page_reviews \in Pages :
            IF page_reviews = <<>>
            THEN /\ pc' = "collect_exit"
                 /\ UNCHANGED <<reviews, page, response>>
            ELSE /\ reviews' = reviews \o page_reviews
                 /\ page' = page + 1
                 /\ UNCHANGED <<pc, response>>
       \/ \* requests.get raises: the exception leaves the collector
          /\ Respond(500, "exception")
          /\ UNCHANGED <<reviews, page>>
    /\ UNCHANGED <<audit_counts, sent, req, input_value, path, details,
                   collected, report, tpc, tcount>>

\* The loop condition fails or a break was taken: return reviews[:max_reviews].
CollectReturn ==
    /\ \/ pc = "collect_exit"
       \/ pc = "collect" /\ ~(Len(reviews) < max_reviews)
    /\ collected' = <<Truncate(reviews, max_reviews)>>
    /\ pc' = "score"
    /\ UNCHANGED <<audit_counts, sent, req, input_value, path, calls, details,
                   reviews, page, fetches, report, response, tpc, tcount>>

\* audit_amazon_content on what was gathered, then the success response.
audit_score_amazon ==
    /\ pc = "score"
    /\ report' = <<audit_amazon_content(details[1], collected[1])>>
    /\ Respond(200, "")
    /\ UNCHANGED <<audit_counts, sent, req, input_value, path, calls, details,
                   reviews, page, fetches, collected, tpc, tcount>>

PipelineFetch == CollectFetch(PipelinePages)

----------------------------------------------------------------------------
(* Sequential serving: one request at a time, start to response *)

Threads == 1..NumThreads

Init ==
    /\ audit_counts = <<>>
    /\ sent = [c \in Identities |-> 0]
    /\ pc = "idle"
    /\ req = <<>>
    /\ input_value = <<>>
    /\ path = "none"
    /\ calls = {}
    /\ details = <<>>
    /\ reviews = <<>>
    /\ page = 1
    /\ fetches = 0
    /\ collected = <<>>
    /\ report = <<>>
    /\ response = <<>>
    /\ tpc = [t \in Threads |-> "start"]
    /\ tcount = [t \in Threads |-> 0]

Next ==
    \/ SendRequest
    \/ limit_audit_requests
    \/ audit_classify
    \/ audit_extract_amazon
    \/ audit_shopify
    \/ PipelineFetch
    \/ CollectReturn
    \/ audit_score_amazon

Spec == Init /\ [][Next]_vars

----------------------------------------------------------------------------
(* The collector on its own: entered for one request, any fetcher *)

InitCollect ==
    /\ audit_counts = Put(<<>>, "10.0.0.1", 1)
    /\ sent = [c \in Identities |-> IF c = "10.0.0.1" THEN 1 ELSE 0]
    /\ pc = "collect"
    /\ req = <<[client |-> "10.0.0.1",
                input |-> <<"B","0","C","3","D","4","E","5","F","6">>]>>
    /\ input_value = <<"B","0","C","3","D","4","E","5","F","6">>
    /\ path = "asin"
    /\ calls = {"extract_amazon_listing_details"}
    /\ details \in {<<d>> : d \in PipelineListings}
    /\ reviews = <<>>
    /\ page = 1
    /\ fetches = 0
    /\ collected = <<>>
    /\ report = <<>>
    /\ response = <<>>
    /\ tpc = [t \in Threads |-> "start"]
    /\ tcount = [t \in Threads |-> 0]

CollectorFetch == CollectFetch(CollectorPages)

NextCollect ==
    \/ CollectorFetch
    \/ CollectReturn
    \/ audit_score_amazon

\* A page fetch returns or raises, and the handler's thread keeps running.
SpecCollect ==
    /\ InitCollect
    /\ [][NextCollect]_vars
    /\ WF_vars(CollectorFetch)
    /\ WF_vars(CollectReturn)

----------------------------------------------------------------------------
(* The scoring engines on their own: any listing, any review list *)

TitleLengths == {0, 49, 50, 200, 201}

DescriptionLengths == {0, 149, 150}

\* The extractors keep at most 5 images; 3 and more are scored alike.
ImageCounts == 0..3

WordCounts == {6, 7}

Polarities == {-3, -2, 2, 3}

SeqsUpTo(S, n) == UNION {[1..k -> S] : k \in 0..n}

\* Bullets past the fifth are thin: the case in which scoring them would show.
BulletLists ==
    {b \in SeqsUpTo(WordCounts, MaxBullets) : \A k \in 6..Len(b) : b[k] = 6}

AmazonListings ==
    [title : TitleLengths, bullets : BulletLists,
     description : DescriptionLengths, images : ImageCounts]

ShopPages ==
    [title : TitleLengths, description : DescriptionLengths,
     images : ImageCounts]

\* One list per multiset of polarities: the mean does not depend on order.
ReviewLists ==
    {rs \in SeqsUpTo(Polarities, MaxScoredReviews) :
        \A k \in 1..(Len(rs) - 1) : rs[k] <= rs[k + 1]}

\* One call of the engine per behaviour, on inputs drawn here.
CallAuditAmazon ==
    /\ report = <<>>
    /\ \E d \in AmazonListings, rs \in ReviewLists :
         /\ details' = <<d>>
         /\ collected' = <<rs>>
         /\ report' = <<audit_amazon_content(d, rs)>>
    /\ path' = "asin"
    /\ UNCHANGED <<audit_counts, sent, pc, req, input_value, calls, reviews,
                   page, fetches, response, tpc, tcount>>

CallAuditShopify ==
    /\ report = <<>>
    /\ \E d \in ShopPages :
         /\ details' = <<d>>
         /\ report' = <<audit_shopify_content(d.title, d.description,
                                              d.images)>>
    /\ collected' = <<>>
    /\ path' = "url"
    /\ UNCHANGED <<audit_counts, sent, pc, req, input_value, calls, reviews,
                   page, fetches, response, tpc, tcount>>

NextScore == CallAuditAmazon \/ CallAuditShopify

SpecScore == Init /\ [][NextScore]_vars

----------------------------------------------------------------------------
(* Concurrent serving: worker threads inside the gate for the same client *)

GateClient == "10.0.0.1"

\* count = audit_counts.get(ip, 0)
GateRead(t) ==
    /\ tpc[t] = "start"
    /\ tcount' = [tcount EXCEPT ![t] = Get(audit_counts, GateClient)]
    /\ tpc' = [tpc EXCEPT ![t] = "read"]
    /\ UNCHANGED <<audit_counts, sent, pc, req, input_value, path, calls,
                   details, reviews, page, fetches, collected, report,
                   response>>

\* if count >= MAX_AUDITS_PER_IP: return the 429 response
GateCompare(t) ==
    /\ tpc[t] = "read"
    /\ tpc' = [tpc EXCEPT ![t] =
                 IF OverLimit(tcount[t]) THEN "rejected" ELSE "compared"]
    /\ UNCHANGED <<audit_counts, sent, pc, req, input_value, path, calls,
                   details, reviews, page, fetches, collected, report,
                   response, tcount>>

\* audit_counts[ip] = count + 1, after which the handler runs
GateWrite(t) ==
    /\ tpc[t] = "compared"
    /\ audit_counts' = Counted(audit_counts, GateClient, tcount[t])
    /\ tpc' = [tpc EXCEPT ![t] = "handler"]
    /\ UNCHANGED <<sent, pc, req, input_value, path, calls, details, reviews,
                   page, fetches, collected, report, response, tcount>>

NextConc == \E t \in Threads : GateRead(t) \/ GateCompare(t) \/ GateWrite(t)

SpecConc == Init /\ [][NextConc]_vars

----------------------------------------------------------------------------
(* Properties of the throttle gate *)

Admitted == {t \in Threads : tpc[t] = "handler"}

\* C1: under concurrent POST /audit requests from one client identity, the
\* number of requests that pass the gate and reach the handler never exceeds
\* the cap of 3, in any interleaving of the gate's read, compare and write.
C1_ConcurrentAdmissionsWithinCap == Cardinality(Admitted) <= MAX_AUDITS_PER_IP

Served == req # <<>> /\ pc # "gate"

RejectedByGate ==
    /\ pc = "responded"
    /\ response[1].status = 429
    /\ response[1].message = "limit_exceeded"
    /\ ~response[1].success

\* C4: served one at a time, a client's 4th and every later POST /audit is
\* answered 429 by the gate and never reaches the handler (no routing, no
\* extraction, no review fetch, no report), while a client's first three
\* requests are never answered 429, whatever other clients have sent.
C4_FourthRequestRejected ==
    Served =>
        LET k == sent[req[1].client]
        IN  /\ k > MAX_AUDITS_PER_IP =>
                /\ RejectedByGate
                /\ path = "none" /\ calls = {} /\ fetches = 0
                /\ details = <<>> /\ report = <<>>
            /\ k <= MAX_AUDITS_PER_IP =>
                ~(response # <<>> /\ response[1].status = 429)

C4_Witness ==
    /\ Served
    /\ sent[req[1].client] = MAX_AUDITS_PER_IP + 1
    /\ RejectedByGate
    /\ \E c \in Identities : c # req[1].client /\ sent[c] > 0

\* Requests of client c that have been through the gate.
Gated(c) ==
    sent[c] - (IF req # <<>> /\ pc = "gate" /\ req[1].client = c THEN 1 ELSE 0)

CounterMatchesRequests ==
    \A c \in Identities :
        Get(audit_counts, c) = Min(MAX_AUDITS_PER_IP, Gated(c))

CounterStep ==
    /\ \A c \in Identities : Get(audit_counts', c) >= Get(audit_counts, c)
    /\ pc = "gate" /\ pc' = "handler" =>
         \A c \in Identities :
            Get(audit_counts', c) =
                Get(audit_counts, c) + (IF c = req[1].client THEN 1 ELSE 0)
    /\ pc = "gate" /\ pc' # "handler" => audit_counts' = audit_counts
    /\ pc # "gate" => audit_counts' = audit_counts

\* C10: served one at a time, each client's counter equals min(3, requests of
\* that client that have been through the gate); an admitted request adds
\* exactly one before the handler runs, nothing the handler does changes a
\* counter, a rejected request changes none, and no counter ever decreases.
C10_CounterIsMinOfCapAndRequests ==
    [](CounterMatchesRequests) /\ [][CounterStep]_vars

C10_Witness ==
    /\ Served
    /\ pc = "responded"
    /\ response[1].status = 500
    /\ sent[req[1].client] = MAX_AUDITS_PER_IP
    /\ Get(audit_counts, req[1].client) = MAX_AUDITS_PER_IP

----------------------------------------------------------------------------
(* Properties of the handler *)

Classified ==
    /\ req # <<>>
    /\ pc \notin {"idle", "gate", "handler"}
    /\ ~RejectedByGate

IdentifierPattern(v) ==
    Len(v) \in 8..10 /\ \A k \in 1..Len(v) : v[k] \in AlnumChars

SchemePrefixed(v) ==
    \/ StartsWith(v, <<"h","t","t","p",":","/","/">>)
    \/ StartsWith(v, <<"h","t","t","p","s",":","/","/">>)

\* C7: on the identifier path, once listing extraction has succeeded, review
\* collection never fails the request: whatever the page fetches do, the
\* request is answered success=true with a report on the reviews gathered.
C7_CollectionNeverFails ==
    (path = "asin" /\ details # <<>> /\ pc = "responded") =>
        /\ response[1].status = 200
        /\ response[1].success
        /\ report # <<>>
        /\ collected = <<Truncate(reviews, max_reviews)>>

\* C8: a non-empty trimmed input goes down the URL path only if it does not
\* match the identifier pattern and starts with "http://" or "https://"; an
\* input matching the pattern goes down the identifier path; every other
\* input is answered 400 (invalid format) with no extraction attempted.
C8_Routing ==
    LET v == Strip(req[1].input)
    IN  (Classified /\ v # <<>>) =>
            /\ path = "url" => ~IdentifierPattern(v) /\ SchemePrefixed(v)
            /\ IdentifierPattern(v) => path = "asin"
            /\ (~IdentifierPattern(v) /\ ~SchemePrefixed(v)) =>
                 /\ pc = "responded"
                 /\ response[1].status = 400
                 /\ response[1].message = "invalid_format"
                 /\ calls = {}

----------------------------------------------------------------------------
(* Properties of the collector *)

Returned == collected # <<>>

Raised == response # <<>>

\* C3: whatever the page fetcher does, also when it delivers a non-empty page
\* every time, the collector issues at most 100 page fetches, leaves its loop,
\* and the list it returns has between 0 and 100 entries.
C3_CollectorBounded ==
    /\ [](fetches <= max_reviews)
    /\ [](Returned => Len(collected[1]) \in 0..max_reviews)
    /\ ((pc = "collect") ~> (Returned \/ Raised))

C3_Witness ==
    /\ Returned
    /\ Len(reviews) > max_reviews
    /\ Len(collected[1]) = max_reviews
    /\ fetches > 1

----------------------------------------------------------------------------
(* Properties of the scoring engines *)

Scored == report # <<>>

ScoredAmazon == Scored /\ path = "asin"

Lines == report[1].recommendations

Rules == [k \in 1..Len(Lines) |-> Lines[k].rec.rule]

\* C2: for every listing and every sentiment score, the listing_score either
\* engine returns is an integer from 0 to 100.
C2_ScoreInRange == Scored => report[1].listing_score \in 0..100

C2_Witness ==
    /\ ScoredAmazon
    /\ report[1].listing_score = 0
    /\ details[1].title = 0 /\ details[1].bullets = <<>>
    /\ details[1].description = 0 /\ details[1].images = 0
    /\ Below(analyze_reviews_sentiment(collected[1]), -2)

ScenarioA ==
    /\ ScoredAmazon
    /\ details[1] = [title |-> 0, bullets |-> <<>>, description |-> 0,
                     images |-> 0]
    /\ analyze_reviews_sentiment(collected[1]).num = 0

\* C5 as stated: in scenario A (no title, no bullets, no description, no
\* images, sentiment 0) the score is 10 and there are exactly 5
\* recommendations: title, bullets, description, images, general.
C5_ScenarioA_AsStated ==
    ScenarioA =>
        /\ report[1].listing_score = 10
        /\ Rules = <<"title_missing", "bullets_none", "description_missing",
                     "images_none", "general_amazon">>

\* C5 amended: in scenario A the score is 100 - 25 - 20 - 25 - 20 - 5 = 5 and
\* there are exactly 6 recommendations: title, bullets, description, images,
\* mixed sentiment, general, in that order.
C5_ScenarioA ==
    ScenarioA =>
        /\ report[1].listing_score = 5
        /\ Rules = <<"title_missing", "bullets_none", "description_missing",
                     "images_none", "sentiment_mixed", "general_amazon">>

C5_Witness == ScenarioA /\ collected = << <<>> >>

\* The label the thresholds of the data model give: above 0.2 positive,
\* below -0.2 negative, anything else neutral.
LabelByThresholds(avg) ==
    IF Above(avg, 2) THEN "positive"
    ELSE IF Below(avg, -2) THEN "negative"
    ELSE "neutral"

\* C6: the sentiment label is positive above 0.2, negative below -0.2 and
\* neutral otherwise (at exactly -0.2 and 0.2 too), so the label is negative
\* exactly when the negative-sentiment deduction fires.
C6_LabelFollowsThresholds ==
    ScoredAmazon =>
        LET avg == analyze_reviews_sentiment(collected[1])
        IN  /\ report[1].sentiment_summary = LabelByThresholds(avg)
            /\ report[1].sentiment_summary = "negative" <=>
                 \E k \in 1..Len(Rules) : Rules[k] = "sentiment_negative"

\* The rule table: how many deductions a listing and a sentiment trigger.
Triggered(d, avg) ==
    LET n == Len(d.bullets)
    IN    (IF d.title = 0 \/ d.title < 50 \/ d.title > 200 THEN 1 ELSE 0)
        + (IF n < 5 THEN 1
           ELSE Cardinality({k \in 1..5 : d.bullets[k] < 7}))
        + (IF d.description < 150 THEN 1 ELSE 0)
        + (IF d.images < 3 THEN 1 ELSE 0)
        + (IF Below(avg, 2) THEN 1 ELSE 0)

CategoryRank(rule) ==
    CASE rule \in {"title_missing", "title_short", "title_long"} -> 1
      [] rule \in {"bullets_none", "bullets_few", "bullet_short"} -> 2
      [] rule \in {"description_missing", "description_short"} -> 3
      [] rule \in {"images_none", "images_few"} -> 4
      [] rule \in {"sentiment_negative", "sentiment_mixed"} -> 5
      [] OTHER -> 6

\* C9: audit_amazon_content returns one recommendation per triggered
\* deduction plus the general one; they come in the order title, bullets,
\* description, images, sentiment; the general one is always there and only
\* last; and the serialized prefixes are 1, 2, ..., n.
C9_RecommendationList ==
    ScoredAmazon =>
        LET lines == Lines
            n == Len(lines)
            rank == [k \in 1..n |-> CategoryRank(lines[k].rec.rule)]
        IN  /\ n = Triggered(details[1],
                             analyze_reviews_sentiment(collected[1])) + 1
            /\ \A k \in 1..(n - 1) : rank[k] <= rank[k + 1]
            /\ lines[n].rec.rule = "general_amazon"
            /\ \A k \in 1..(n - 1) : rank[k] < 6
            /\ \A k \in 1..n : lines[k].prefix = k

C9_Witness ==
    /\ ScoredAmazon
    /\ Len(details[1].bullets) > 5
    /\ Len(Lines) = 10
    /\ Rules[2] = "bullet_short" /\ Rules[6] = "bullet_short"

============================================================================
